---- MODULE Spec2Model ----
(***************************************************************************)
(* A model of the WB catalog crawl pipeline of src/main.py: run_all, which *)
(* captures the menu document (fetch_menu), fetches the subjects of every  *)
(* eligible leaf under a semaphore (collect_subjects), counts the leaves   *)
(* (leaves_stats) and builds the export rows (make_excel).                 *)
(*                                                                         *)
(* JSON objects are TLA+ records; a key that is absent in the JSON is      *)
(* absent from the record's DOMAIN.  Text that the code inspects (urls,    *)
(* search queries) is a sequence of one-character strings; text that the   *)
(* code only carries around (names, error messages) is a TLA+ string.      *)
(***************************************************************************)
EXTENDS Integers, Sequences, FiniteSets, TLC

\* ------------------------------------------------------------------ bounds
\* Nodes of the menu forest the site serves in a run of the whole pipeline.
MaxNodes == 2
\* Nodes of the menu forest make_excel is given when it is checked alone.
MaxTreeNodes == 4
\* Largest value of collect_subjects' concurrency argument.
MaxConcurrency == 2
\* Responses the page delivers to on_response during one run.
MaxResponses == 2
\* Items of an xsubject facet.
MaxItems == 2
\* Characters of a leaf's query text when build_filters_url is checked alone.
MaxQueryLen == 3

\* ------------------------------------------------------------ python values
\* None, and a str, as the values of a record's "error" field.
None == [type |-> "None", val |-> ""]
Str(s) == [type |-> "str", val |-> s]
\* Python's truth value of None or a str: None and "" are false.
Truthy(v) == v.type = "str" /\ v.val # ""

\* str.startswith and str.endswith on sequences of characters.
StartsWith(s, p) == Len(s) >= Len(p) /\ SubSeq(s, 1, Len(p)) = p
EndsWith(s, p) == Len(s) >= Len(p) /\ SubSeq(s, Len(s) - Len(p) + 1, Len(s)) = p
\* Python's "p in s" for strings: p occurs in s.
Contains(s, p) == \E i \in 0..(Len(s) - Len(p)) : SubSeq(s, i + 1, i + Len(p)) = p

\* dict.get(key, default) of a JSON object.
Get(d, key, default) == IF key \in DOMAIN d THEN d[key] ELSE default

\* The elements of a sequence.
Range(s) == {s[i] : i \in DOMAIN s}

\* -------------------------------------------------------- the menu document
CATALOG == <<"/", "c", "a", "t", "a", "l", "o", "g">>
SITE == <<"h", "t", "t", "p", "s", ":", "/", "/", "w", "b">>
NodeNames == <<"A", "B", "C", "D", "E", "F", "G", "H", "I">>

\* The ascending sequence of a finite set of integers.
RECURSIVE SortedSeq(_)
SortedSeq(S) ==
    IF S = {} THEN <<>>
    ELSE LET m == CHOOSE x \in S : \A y \in S : x <= y
         IN  <<m>> \o SortedSeq(S \ {m})

\* A childless CatalogNode of each kind select_leaves tells apart:
\*   1  under /catalog with a search query (eligible; its query holds a space)
\*   2  outside /catalog, with a search query, the "childs" key absent
\*   3  under /catalog, the "searchQuery" key absent
\*   4  under /catalog, the search query empty
LeafNode(i, kind) ==
    CASE kind = 1 -> [id |-> i, name |-> NodeNames[i], url |-> CATALOG \o <<"/", "x">>,
                      searchQuery |-> <<"a", " ", "b">>, childs |-> <<>>]
      [] kind = 2 -> [id |-> i, name |-> NodeNames[i], url |-> <<"/", "p">>,
                      searchQuery |-> <<"q">>]
      [] kind = 3 -> [id |-> i, name |-> NodeNames[i], url |-> CATALOG \o <<"/", "y">>,
                      childs |-> <<>>]
      [] kind = 4 -> [id |-> i, name |-> NodeNames[i], url |-> CATALOG \o <<"/", "z">>,
                      searchQuery |-> <<>>, childs |-> <<>>]
LeafKinds == 1..4

\* The CatalogNode of index i in the forest of n nodes whose parent vector is
\* par (par[j] < j, 0 for a root) and whose childless nodes have the kinds
\* kind[j].  Ids are unique (the index); an internal node has a /catalog url
\* and a search query, like an eligible leaf, and children.
RECURSIVE MkNode(_, _, _, _)
MkNode(i, n, par, kind) ==
    LET ch == SortedSeq({j \in (i + 1)..n : par[j] = i})
    IN  IF ch = <<>> THEN LeafNode(i, kind[i])
        ELSE [id |-> i, name |-> NodeNames[i], url |-> CATALOG,
              searchQuery |-> <<"q">>,
              childs |-> [k \in 1..Len(ch) |-> MkNode(ch[k], n, par, kind)]]

MkForest(n, par, kind) ==
    LET roots == SortedSeq({j \in 1..n : par[j] = 0})
    IN  [k \in 1..Len(roots) |-> MkNode(roots[k], n, par, kind)]

\* Every forest of 1..max nodes whose childless nodes are of the given kinds
\* (menu.json documents of the data model).
ForestsUpTo(max, kinds) ==
    UNION {
      { MkForest(n, par, kind) :
          par \in {p \in [1..n -> 0..(n - 1)] : \A j \in 1..n : p[j] < j},
          kind \in [1..n -> kinds] }
      : n \in 1..max }

Forests == ForestsUpTo(MaxNodes, LeafKinds)
\* make_excel reads of a childless node its id, its name and whether a record
\* exists for it: an eligible leaf and one that is not are told apart.
ExportForests == ForestsUpTo(MaxTreeNodes, {1, 2})

\* ----------------------------------------------------------- TreeFlattener
Childs(node) == Get(node, "childs", <<>>)

RECURSIVE iter_leaves_loop(_, _)
iter_leaves_loop(stack, out) ==
    IF stack = <<>> THEN out
    ELSE LET node  == stack[Len(stack)]
             rest  == SubSeq(stack, 1, Len(stack) - 1)
             childs == Childs(node)
         IN  IF childs # <<>>
             THEN iter_leaves_loop(rest \o childs, out)
             ELSE iter_leaves_loop(rest, Append(out, node))

iter_leaves(tree) == iter_leaves_loop(tree, <<>>)

\* select_leaves without its test of the url.
IsEligible_any_url(node) ==
    /\ "searchQuery" \in DOMAIN node
    /\ node.searchQuery # <<>>

\* The condition of select_leaves: node.get("searchQuery") is truthy when the
\* key is present and the text is not empty.
IsEligible(node) ==
    /\ StartsWith(Get(node, "url", <<>>), CATALOG)
    /\ "searchQuery" \in DOMAIN node
    /\ node.searchQuery # <<>>

RECURSIVE FilterSeq(_, _)
FilterSeq(s, keep) ==
    IF s = <<>> THEN <<>>
    ELSE (IF keep[s[1]] THEN <<s[1]>> ELSE <<>>) \o FilterSeq(Tail(s), keep)

select_leaves(menu) ==
    LET leaves == iter_leaves(menu)
    IN  FilterSeq(leaves, [n \in Range(leaves) |-> IsEligible(n)])

\* -------------------------------------------------------------- LeafFetcher
\* The outcome of a call: a returned value, or an exception with its str().
Ok(v) == [ok |-> TRUE, val |-> v]
Raise(m) == [ok |-> FALSE, msg |-> m]

\* str.strip() of a sequence of characters.
RECURSIVE LStrip(_)
LStrip(s) == IF s # <<>> /\ s[1] = " " THEN LStrip(Tail(s)) ELSE s
RECURSIVE RStrip(_)
RStrip(s) ==
    IF s # <<>> /\ s[Len(s)] = " " THEN RStrip(SubSeq(s, 1, Len(s) - 1)) ELSE s
Strip(s) == RStrip(LStrip(s))

\* node["id"] and node["searchQuery"] raise KeyError when the key is absent;
\* int() of an integer id is that integer.
get_leaf_info(node) ==
    IF "id" \notin DOMAIN node THEN Raise("'id'")
    ELSE LET leaf_url == Strip(Get(node, "url", <<>>))
         IN  IF "searchQuery" \notin DOMAIN node THEN Raise("'searchQuery'")
             ELSE Ok([leaf_id       |-> node.id,
                      leaf_name     |-> Get(node, "name", ""),
                      leaf_full_url |-> IF StartsWith(leaf_url, <<"/">>)
                                        THEN SITE \o leaf_url ELSE leaf_url,
                      q             |-> node.searchQuery])

\* urllib.parse.quote(c, safe=''): letters, digits and "_.-~" are kept, every
\* other character is written as % and its two hexadecimal digits.
QuoteChar(c) ==
    CASE c = " " -> <<"%", "2", "0">>
      [] c = "/" -> <<"%", "2", "F">>
      [] c = "+" -> <<"%", "2", "B">>
      [] c = "&" -> <<"%", "2", "6">>
      [] c = "%" -> <<"%", "2", "5">>
      [] OTHER   -> <<c>>

\* urlencode's default, quote_plus: quote, but a space is written "+".
RECURSIVE quote_plus(_)
quote_plus(s) ==
    IF s = <<>> THEN <<>>
    ELSE (IF s[1] = " " THEN <<"+">> ELSE QuoteChar(s[1])) \o quote_plus(Tail(s))

\* quote_via=quote: each character of the text through quote.
RECURSIVE quote(_)
quote(s) == IF s = <<>> THEN <<>> ELSE QuoteChar(s[1]) \o quote(Tail(s))

\* BASE_HOST, BASE_PATH and the urlencoded EXPAND_PARAMS (none of which holds
\* a character that quote changes), up to "query=".
FILTERS_URL_HEAD ==
    <<"https://search.wb.ru/exactmatch/ru/common/v18/search?appType=1&curr=rub&dest=-1257786&hide_dtype=13&lang=ru&filters=ffsubject&resultset=filters&spp=30&query=">>

build_filters_url(query) == FILTERS_URL_HEAD \o quote(query)

\* [{"id": it["id"], "name": it["name"]} for it in items]: the list, or the
\* KeyError of the first item that lacks a key; no list is returned then.
RECURSIVE MapItems(_)
MapItems(items) ==
    IF items = <<>> THEN Ok(<<>>)
    ELSE LET it == items[1]
         IN  IF "id" \notin DOMAIN it THEN Raise("'id'")
             ELSE IF "name" \notin DOMAIN it THEN Raise("'name'")
             ELSE LET rest == MapItems(Tail(items))
                  IN  IF rest.ok
                      THEN Ok(<<[id |-> it.id, name |-> it.name]>> \o rest.val)
                      ELSE rest

\* extract_subjects that looks at the first filter only.
ScanFilters_first_only(filters) ==
    IF filters = <<>> THEN Ok(<<>>)
    ELSE IF "key" \in DOMAIN filters[1] /\ filters[1].key = "xsubject"
         THEN MapItems(Get(filters[1], "items", <<>>))
         ELSE Ok(<<>>)

RECURSIVE ScanFilters(_)
ScanFilters(filters) ==
    IF filters = <<>> THEN Ok(<<>>)
    ELSE LET f == filters[1]
         IN  IF "key" \in DOMAIN f /\ f.key = "xsubject"
             THEN MapItems(Get(f, "items", <<>>))
             ELSE ScanFilters(Tail(filters))

extract_subjects(payload) ==
    IF "data" \notin DOMAIN payload THEN Raise("'data'")
    ELSE IF "filters" \notin DOMAIN payload.data THEN Raise("'filters'")
    ELSE ScanFilters(payload.data.filters)

\* What the endpoint answers to one GET: the request fails (a network error,
\* the 8 s timeout) with some message, or a response arrives whose text is a
\* JSON document or not, with or without a leading byte-order mark.
\* ctx.request.get raises in the first case; resp.json() raises on a
\* byte-order mark or on text that is no JSON; json.loads of the stripped text
\* raises on text that is no JSON.
fetch_json(reply) ==
    IF reply.kind = "error" THEN Raise(reply.msg)
    ELSE IF reply.isJson /\ ~reply.bom THEN Ok(reply.doc)
    ELSE IF reply.isJson THEN Ok(reply.doc)
    ELSE Raise("Expecting value")

\* fetch_subjects_for_leaf without its try/except: what fetch_json or
\* extract_subjects raises gets out of the function.
fetch_subjects_for_leaf_notry(node, reply) ==
    LET info == get_leaf_info(node)
    IN  IF ~info.ok THEN info
        ELSE LET data == fetch_json(reply)
                 subjects == IF data.ok THEN extract_subjects(data.val) ELSE data
             IN  IF subjects.ok
                 THEN Ok([leaf_id       |-> info.val.leaf_id,
                          leaf_name     |-> info.val.leaf_name,
                          leaf_full_url |-> info.val.leaf_full_url,
                          subjects      |-> subjects.val,
                          error         |-> None])
                 ELSE subjects

\* The items mapped before the first one that lacks a key.
RECURSIVE MappedPrefix(_)
MappedPrefix(items) ==
    IF items = <<>> \/ "id" \notin DOMAIN items[1] \/ "name" \notin DOMAIN items[1]
    THEN <<>>
    ELSE <<[id |-> items[1].id, name |-> items[1].name]>> \o MappedPrefix(Tail(items))

RECURSIVE FacetItems(_)
FacetItems(filters) ==
    IF filters = <<>> THEN <<>>
    ELSE IF "key" \in DOMAIN filters[1] /\ filters[1].key = "xsubject"
         THEN Get(filters[1], "items", <<>>)
         ELSE FacetItems(Tail(filters))

\* fetch_subjects_for_leaf filling record["subjects"] item by item: an item
\* without a key leaves the items before it in the record.
fetch_subjects_for_leaf_partial(node, reply) ==
    LET info == get_leaf_info(node)
    IN  IF ~info.ok THEN info
        ELSE LET record == [leaf_id       |-> info.val.leaf_id,
                            leaf_name     |-> info.val.leaf_name,
                            leaf_full_url |-> info.val.leaf_full_url,
                            subjects      |-> <<>>,
                            error         |-> None]
                 data == fetch_json(reply)
                 subjects == IF data.ok THEN extract_subjects(data.val) ELSE data
             IN  IF subjects.ok
                 THEN Ok([record EXCEPT !.subjects = subjects.val])
                 ELSE IF data.ok /\ "data" \in DOMAIN data.val
                         /\ "filters" \in DOMAIN data.val.data
                      THEN Ok([record EXCEPT
                                 !.subjects = MappedPrefix(FacetItems(data.val.data.filters)),
                                 !.error = Str(subjects.msg)])
                      ELSE Ok([record EXCEPT !.error = Str(subjects.msg)])

\* fetch_subjects_for_leaf: get_leaf_info runs before the try; what the try
\* block raises becomes the record's error and subjects stays [].
fetch_subjects_for_leaf(node, reply) ==
    LET info == get_leaf_info(node)
    IN  IF ~info.ok THEN info
        ELSE LET record == [leaf_id       |-> info.val.leaf_id,
                            leaf_name     |-> info.val.leaf_name,
                            leaf_full_url |-> info.val.leaf_full_url,
                            subjects      |-> <<>>,
                            error         |-> None]
                 data == fetch_json(reply)
                 subjects == IF data.ok THEN extract_subjects(data.val) ELSE data
             IN  IF subjects.ok
                 THEN Ok([record EXCEPT !.subjects = subjects.val])
                 ELSE Ok([record EXCEPT !.error = Str(subjects.msg)])

\* ------------------------------------------------- the facet-search endpoint
\* The items a facet may hold: two well-formed ones (with a key the code does
\* not copy) and one without a name.
ItemPool ==
    { [id |-> 91, name |-> "Foo", count |-> 5],
      [id |-> 92, name |-> "Bar", count |-> 0],
      [id |-> 93] }

\* The sequences of at most n different elements of S.
RECURSIVE SeqsUpTo(_, _)
SeqsUpTo(S, n) ==
    IF n = 0 THEN {<<>>}
    ELSE LET shorter == SeqsUpTo(S, n - 1)
         IN  shorter \cup {Append(q, x) : q \in shorter, x \in S}
DistinctSeqs(S, n) ==
    {q \in SeqsUpTo(S, n) : \A i, j \in DOMAIN q : i # j => q[i] # q[j]}

ItemSeqs == DistinctSeqs(ItemPool, MaxItems)

XSubject(items) == [key |-> "xsubject", items |-> items]
OtherFilter == [key |-> "fbrand", items |-> <<[id |-> 7, name |-> "Brand"]>>]

\* The filter lists of a response: the xsubject facet alone or after another
\* facet, no xsubject facet, a facet object without a "key", two xsubject
\* facets, an xsubject facet without "items".
FilterLists ==
    {<<XSubject(its)>> : its \in ItemSeqs}
      \cup {<<OtherFilter, XSubject(its)>> : its \in ItemSeqs}
      \cup { <<>>, <<OtherFilter>>,
             <<[name |-> "nokey"], XSubject(<<[id |-> 91, name |-> "Foo"]>>)>>,
             <<XSubject(<<[id |-> 92, name |-> "Bar"]>>),
               XSubject(<<[id |-> 91, name |-> "Foo"]>>)>>,
             <<[key |-> "xsubject"]>> }

\* The JSON documents of a response: with data.filters, without "filters",
\* without "data".
Payloads ==
    {[data |-> [filters |-> fl]] : fl \in FilterLists}
      \cup {[data |-> [total |-> 0]], [state |-> 0]}

NoDoc == [state |-> 0]

\* No answer of the endpoint is followed.
NoReply == [kind |-> "none", msg |-> "", isJson |-> FALSE, bom |-> FALSE, doc |-> NoDoc]

\* What the endpoint may answer to one GET.
Replies ==
    {[kind |-> "error", msg |-> m, isJson |-> FALSE, bom |-> FALSE, doc |-> NoDoc] :
        m \in {"", "Timeout 8000ms exceeded"}}
      \cup {[kind |-> "resp", msg |-> "", isJson |-> TRUE, bom |-> b, doc |-> d] :
              b \in BOOLEAN, d \in Payloads}
      \cup {[kind |-> "resp", msg |-> "", isJson |-> FALSE, bom |-> b, doc |-> NoDoc] :
              b \in BOOLEAN}

\* ---------------------------------------------------------- ResponseCapture
\* MENU_HINTS; in a url the words the code looks for are kept whole.
MENU_HINTS == <<"main-menu", "v3">>

is_menu_url(url) ==
    /\ EndsWith(url, <<".json">>)
    /\ \A h \in Range(MENU_HINTS) : Contains(url, <<h>>)

\* isinstance(x, dict): every element of a JSON list that is no object is
\* written [scalar |-> v].
IsDict(x) == "scalar" \notin DOMAIN x

\* looks_like_menu_json that looks at the whole list.
FirstFive_whole_list(s) == s

\* data[:5]
FirstFive(s) == SubSeq(s, 1, IF Len(s) < 5 THEN Len(s) ELSE 5)

\* A parsed body is [isList |-> ..., data |-> ...]: data is the list's
\* elements when isList, and the sequence of the one object otherwise.
looks_like_menu_json(body) ==
    /\ body.isList
    /\ \E x \in Range(FirstFive(body.data)) :
          IsDict(x) /\ "id" \in DOMAIN x /\ "name" \in DOMAIN x

MenuUrl == <<"/", "v3", "/", "main-menu", ".json">>

\* A menu document whose first k roots have an id and no name, before a
\* well-formed root.
PaddedMenu(k) == [i \in 1..(k + 1) |-> IF i <= k THEN [id |-> 7] ELSE LeafNode(9, 1)]

\* A second menu document that passes the shape check, served by another
\* endpoint of the site: its fifth root is the first with an id and a name.
AltMenu == PaddedMenu(4)

ListBody(forest) == [isJson |-> TRUE, isList |-> TRUE, data |-> forest]
DictBody == [isJson |-> TRUE, isList |-> FALSE, data |-> <<[id |-> 1, name |-> "A"]>>]
NotJsonBody == [isJson |-> FALSE, isList |-> FALSE, data |-> <<>>]

\* The responses the page may deliver while the site serves the menu m.
Responses(m) ==
    { [rtype |-> "xhr",      url |-> MenuUrl, body |-> ListBody(m)],
      [rtype |-> "fetch",    url |-> MenuUrl, body |-> ListBody(AltMenu)],
      [rtype |-> "document", url |-> MenuUrl, body |-> ListBody(m)],
      [rtype |-> "xhr", url |-> MenuUrl \o <<"?", "v">>, body |-> ListBody(m)],
      [rtype |-> "xhr", url |-> <<"/", "main-menu", ".json">>, body |-> ListBody(m)],
      [rtype |-> "xhr", url |-> <<"/", "v3", "/", "menu", ".json">>, body |-> ListBody(m)],
      [rtype |-> "xhr",      url |-> MenuUrl, body |-> DictBody],
      [rtype |-> "fetch",    url |-> MenuUrl, body |-> ListBody(PaddedMenu(5))],
      [rtype |-> "xhr",      url |-> MenuUrl, body |-> NotJsonBody] }

\* The first test of on_response, before it awaits resp.json().
IsCandidate(resp) == resp.rtype \in {"xhr", "fetch"} /\ is_menu_url(resp.url)

\* -------------------------------------------------------- CrawlOrchestrator
\* leaves_stats: len(data) and the number of records whose error is falsy.
leaves_stats(data) ==
    [total |-> Len(data),
     ok    |-> Cardinality({k \in DOMAIN data : ~Truthy(data[k].error)})]

\* ---------------------------------------------------------- PathDenormalizer
\* walk that passes its own level on to the children.
RECURSIVE walk_same_level(_, _, _)
walk_same_level(node, level, acc) ==
    LET cur    == <<node.id, Get(node, "name", ""), level>>
        path   == Append(acc, cur)
        childs == Childs(node)
        below[k \in 0..Len(childs)] ==
            IF k = 0 THEN <<>>
            ELSE below[k - 1] \o walk_same_level(childs[k], level, path)
    IN  IF childs # <<>> THEN below[Len(childs)] ELSE <<path>>

\* walk: the paths appended below node, in the order walk appends them.  A
\* step of a path is <<id, name, level>>.
RECURSIVE walk(_, _, _)
walk(node, level, acc) ==
    LET cur    == <<node.id, Get(node, "name", ""), level>>
        path   == Append(acc, cur)
        childs == Childs(node)
        below[k \in 0..Len(childs)] ==
            IF k = 0 THEN <<>> ELSE below[k - 1] \o walk(childs[k], level + 1, path)
    IN  IF childs # <<>> THEN below[Len(childs)] ELSE <<path>>

\* out.setdefault(root_key, []).append(path) for each path of one root: out is
\* the dict as the sequence of its items, in insertion order.
SetDefaultAppend(out, root_key, paths) ==
    IF \E i \in DOMAIN out : out[i].key = root_key
    THEN [i \in DOMAIN out |->
             IF out[i].key = root_key
             THEN [out[i] EXCEPT !.paths = @ \o paths] ELSE out[i]]
    ELSE Append(out, [key |-> root_key, paths |-> paths])

RECURSIVE build_paths_loop(_, _)
build_paths_loop(menu, out) ==
    IF menu = <<>> THEN out
    ELSE LET root     == menu[1]
             root_key == <<root.id, Get(root, "name", "")>>
         IN  build_paths_loop(Tail(menu),
                              SetDefaultAppend(out, root_key, walk(root, 0, <<>>)))

build_paths_by_root(menu) == build_paths_loop(menu, <<>>)

\* subjects_map that makes a new dict for each record (res = {...} in the
\* loop): only the last record without an error is in the map.
subjects_map_last_only(items) ==
    LET kept == {k \in DOMAIN items : ~Truthy(items[k].error)}
        last == CHOOSE k \in kept : \A j \in kept : j <= k
    IN  [id \in {items[k].leaf_id : k \in {j \in kept : j = last}} |->
            items[last].subjects]

\* subjects_map: the dict as a function; a later record of the same leaf_id
\* overwrites an earlier one.
subjects_map(items) ==
    LET kept == {k \in DOMAIN items : ~Truthy(items[k].error)}
        last(id) == CHOOSE k \in kept :
                       /\ items[k].leaf_id = id
                       /\ \A j \in kept : items[j].leaf_id = id => j <= k
    IN  [id \in {items[k].leaf_id : k \in kept} |-> items[last(id)].subjects]

\* build_rows without its test of leaf_level.
RowsOfPath_leaf_always(path, subj_by_leaf) ==
    LET parents == SubSeq(path, 2, Len(path) - 1)
        leaf    == path[Len(path)]
        subjs   == Get(subj_by_leaf, leaf[1], <<>>)
    IN  FilterSeq(parents, [p \in Range(parents) |-> p[3] > 0])
          \o <<leaf>>
          \o [k \in 1..Len(subjs) |-> <<subjs[k].id, subjs[k].name, 99>>]

\* build_rows emitting the subjects of a leaf before the leaf's own row.
RowsOfPath_subjects_first(path, subj_by_leaf) ==
    LET parents == SubSeq(path, 2, Len(path) - 1)
        leaf    == path[Len(path)]
        subjs   == Get(subj_by_leaf, leaf[1], <<>>)
    IN  FilterSeq(parents, [p \in Range(parents) |-> p[3] > 0])
          \o [k \in 1..Len(subjs) |-> <<subjs[k].id, subjs[k].name, 99>>]
          \o (IF leaf[3] > 0 THEN <<leaf>> ELSE <<>>)

\* The rows build_rows appends for one path.
RowsOfPath(path, subj_by_leaf) ==
    LET parents == SubSeq(path, 2, Len(path) - 1)
        leaf    == path[Len(path)]
        subjs   == Get(subj_by_leaf, leaf[1], <<>>)
    IN  FilterSeq(parents, [p \in Range(parents) |-> p[3] > 0])
          \o (IF leaf[3] > 0 THEN <<leaf>> ELSE <<>>)
          \o [k \in 1..Len(subjs) |-> <<subjs[k].id, subjs[k].name, 99>>]

\* The structure rows of the paths, without the subjects.
RECURSIVE StructureRows(_)
StructureRows(paths) ==
    IF paths = <<>> THEN <<>>
    ELSE RowsOfPath(paths[1], <<>>) \o StructureRows(Tail(paths))

\* The subject rows of the paths' leaves.
RECURSIVE SubjectRowsOf(_, _)
SubjectRowsOf(paths, subj_by_leaf) ==
    IF paths = <<>> THEN <<>>
    ELSE LET subjs == Get(subj_by_leaf, paths[1][Len(paths[1])][1], <<>>)
         IN  [k \in 1..Len(subjs) |-> <<subjs[k].id, subjs[k].name, 99>>]
               \o SubjectRowsOf(Tail(paths), subj_by_leaf)

\* build_rows with the loop over the subjects after the loop over the paths.
build_rows_subjects_last(paths, subj_by_leaf) ==
    StructureRows(paths) \o SubjectRowsOf(paths, subj_by_leaf)

RECURSIVE build_rows(_, _)
build_rows(paths, subj_by_leaf) ==
    IF paths = <<>> THEN <<>>
    ELSE RowsOfPath(paths[1], subj_by_leaf) \o build_rows(Tail(paths), subj_by_leaf)

\* make_excel: one sheet per root that has rows, in the order of the roots.
\* The names of the model are shorter than the 19 characters safe_sheet_name
\* keeps, so a sheet is told by its root's name.
RECURSIVE SheetsOf(_, _)
SheetsOf(paths_by_root, subj_by_leaf) ==
    IF paths_by_root = <<>> THEN <<>>
    ELSE LET rows == build_rows(paths_by_root[1].paths, subj_by_leaf)
         IN  (IF rows = <<>> THEN <<>>
              ELSE <<[sheet |-> paths_by_root[1].key[2], rows |-> rows]>>)
               \o SheetsOf(Tail(paths_by_root), subj_by_leaf)

make_excel(menu, subjects) ==
    SheetsOf(build_paths_by_root(menu), subjects_map(subjects))

\* ------------------------------------------------------------------- state
VARIABLES
    site,           \* the menu document the site serves during this run
    concurrency,    \* run_all's argument
    pc,             \* where run_all is
    run_error,      \* the exception that ended run_all, or None
    fut,            \* fetch_menu's future
    handlers,       \* the on_response calls suspended in resp.json()
    nResp,          \* responses delivered so far
    invalid_state,  \* whether a set_result raised InvalidStateError
    menu_file,      \* menu.json
    leaves,         \* collect_subjects' leaves
    task,           \* the worker tasks, one per leaf
    sem,            \* the semaphore's free permits
    completed,      \* the finished tasks as_completed has not yet handed over
    results,        \* collect_subjects' results
    requests,       \* the GETs issued to the facet-search endpoint
    subjects_file,  \* leaf_subjects.json
    stats,          \* what leaves_stats returned
    xlsx_file,      \* wb_categories.xlsx, its sheets
    stack,          \* iter_leaves' stack, while its loop is followed turn by turn
    out,            \* iter_leaves' out, likewise
    paths_by_root,  \* what build_paths_by_root returned, when it is called alone
    endpoint_reply  \* what the endpoint answers, when one fetch is followed alone

vars == <<site, concurrency, pc, run_error, fut, handlers, nResp, invalid_state,
          menu_file, leaves, task, sem, completed, results, requests,
          subjects_file, stats, xlsx_file, stack, out, paths_by_root,
          endpoint_reply>>

flattenVars == <<stack, out, paths_by_root>>

captureVars == <<fut, handlers, nResp, invalid_state>>
crawlVars == <<leaves, task, sem, completed, results, requests>>
fileVars == <<menu_file, subjects_file, stats, xlsx_file>>

NoFile == [exists |-> FALSE, data |-> <<>>]
File(d) == [exists |-> TRUE, data |-> d]
NoStats == [total |-> 0 - 1, ok |-> 0 - 1]

Pending == [state |-> "pending", value |-> <<>>]
Cancelled == [state |-> "cancelled", value |-> <<>>]
Done(v) == [state |-> "done", value |-> v]

Waiting == [st |-> "waiting", result |-> None]
Fetching == [st |-> "fetching", result |-> None]

Init ==
    /\ site \in Forests
    /\ concurrency \in 1..MaxConcurrency
    /\ pc = "goto"
    /\ run_error = None
    /\ fut = Pending
    /\ handlers = {}
    /\ nResp = 0
    /\ invalid_state = FALSE
    /\ menu_file = NoFile
    /\ leaves = <<>>
    /\ task = <<>>
    /\ sem = 0
    /\ completed = <<>>
    /\ results = <<>>
    /\ requests = {}
    /\ subjects_file = NoFile
    /\ stats = NoStats
    /\ xlsx_file = NoFile
    /\ stack = <<>>
    /\ out = <<>>
    /\ paths_by_root = <<>>
    /\ endpoint_reply = NoReply

\* ------------------------------------------------------------- fetch_menu
\* The page is open while fetch_menu navigates or waits, and until the
\* playwright context is left after the wait timed out.
PageOpen ==
    \/ pc \in {"goto", "wait"}
    \/ pc = "failed" /\ run_error = Str("TimeoutError")

\* The page delivers a response: on_response runs up to its first await.  A
\* response that is no candidate ends the call at once.
Arrive ==
    /\ PageOpen
    /\ nResp < MaxResponses
    /\ \E resp \in Responses(site) :
          handlers' = IF IsCandidate(resp)
                      THEN handlers \cup {[n |-> nResp + 1, resp |-> resp]}
                      ELSE handlers
    /\ nResp' = nResp + 1
    /\ UNCHANGED <<site, endpoint_reply, flattenVars, concurrency, pc, run_error, fut, invalid_state>>
    /\ UNCHANGED <<crawlVars, fileVars>>

\* on_response without its test of fut.done().
on_response_sets_unguarded(body, f) == looks_like_menu_json(body)

\* The condition under which on_response calls fut.set_result(data).
on_response_sets(body, f) == looks_like_menu_json(body) /\ f.state = "pending"

\* resp.json() of one suspended on_response ends: it raises on a body that is
\* no JSON (the call ends there), else the call goes on to its end without
\* another await.  set_result on a future that is done or cancelled raises
\* InvalidStateError.
HandlerDone ==
    /\ PageOpen
    /\ \E h \in handlers :
          /\ handlers' = handlers \ {h}
          /\ IF h.resp.body.isJson /\ on_response_sets(h.resp.body, fut)
             THEN IF fut.state = "pending"
                  THEN fut' = Done(h.resp.body.data) /\ UNCHANGED invalid_state
                  ELSE invalid_state' = TRUE /\ UNCHANGED fut
             ELSE UNCHANGED <<fut, invalid_state>>
    /\ UNCHANGED <<site, endpoint_reply, flattenVars, concurrency, pc, run_error, nResp>>
    /\ UNCHANGED <<crawlVars, fileVars>>

\* page.goto returns.
NavigationDone ==
    /\ pc = "goto"
    /\ pc' = "wait"
    /\ UNCHANGED <<site, endpoint_reply, flattenVars, concurrency, run_error>>
    /\ UNCHANGED <<captureVars, crawlVars, fileVars>>

\* page.goto raises (its own 15 s timeout, a network error): run_all ends.
NavigationFails ==
    /\ pc = "goto"
    /\ pc' = "failed"
    /\ run_error' = Str("NavigationError")
    /\ UNCHANGED <<site, endpoint_reply, flattenVars, concurrency>>
    /\ UNCHANGED <<captureVars, crawlVars, fileVars>>

\* wait_for returns the future's result: menu.json is written, the browser is
\* closed (no response is delivered any more) and fetch_menu returns.
WaitDone ==
    /\ pc = "wait"
    /\ fut.state = "done"
    /\ menu_file' = File(fut.value)
    /\ handlers' = {}
    /\ nResp' = MaxResponses
    /\ pc' = "collect"
    /\ UNCHANGED <<site, endpoint_reply, flattenVars, concurrency, run_error, fut, invalid_state>>
    /\ UNCHANGED <<crawlVars, subjects_file, stats, xlsx_file>>

\* A wait that gives up without cancelling the future (asyncio.wait, or
\* wait_for around a shielded future).
WaitTimeout_no_cancel ==
    /\ pc = "wait"
    /\ fut.state = "pending"
    /\ pc' = "failed"
    /\ run_error' = Str("TimeoutError")
    /\ UNCHANGED <<site, endpoint_reply, flattenVars, concurrency, fut, handlers, nResp, invalid_state>>
    /\ UNCHANGED <<crawlVars, fileVars>>

\* wait_for's timeout passes with the future pending: wait_for cancels the
\* future and raises TimeoutError, which nothing in fetch_menu or run_all
\* catches.
WaitTimeout ==
    /\ pc = "wait"
    /\ fut.state = "pending"
    /\ fut' = Cancelled
    /\ pc' = "failed"
    /\ run_error' = Str("TimeoutError")
    /\ UNCHANGED <<site, endpoint_reply, flattenVars, concurrency, handlers, nResp, invalid_state>>
    /\ UNCHANGED <<crawlVars, fileVars>>

\* -------------------------------------------------------- collect_subjects
\* load_menu, select_leaves, the semaphore and one task per leaf; no task has
\* run yet.
CollectStart ==
    /\ pc = "collect"
    /\ leaves' = select_leaves(menu_file.data)
    /\ task' = [i \in 1..Len(leaves') |-> Waiting]
    /\ sem' = concurrency
    /\ pc' = "crawl"
    /\ UNCHANGED <<site, endpoint_reply, flattenVars, concurrency, run_error, completed, results, requests>>
    /\ UNCHANGED <<captureVars, fileVars>>

\* A worker that does not wait for a permit.
sem_free_always(s) == TRUE

\* "async with sem" lets a task in while a permit is free.
sem_free(s) == s > 0

\* A worker enters "async with sem" and runs fetch_subjects_for_leaf up to
\* its first await, the GET.  An exception of get_leaf_info leaves the
\* "async with" (the permit is given back) and ends the task.
Acquire ==
    /\ pc = "crawl"
    /\ \E i \in DOMAIN task :
          /\ task[i].st = "waiting"
          /\ sem_free(sem)
          /\ LET info == get_leaf_info(leaves[i])
             IN  IF info.ok
                 THEN /\ task' = [task EXCEPT ![i] = Fetching]
                      /\ sem' = sem - 1
                      /\ requests' = requests \cup
                            {[url     |-> build_filters_url(info.val.q),
                              referer |-> info.val.leaf_full_url]}
                      /\ UNCHANGED completed
                 ELSE /\ task' = [task EXCEPT ![i] =
                                     [st |-> "raised", result |-> Str(info.msg)]]
                      /\ completed' = Append(completed, i)
                      /\ UNCHANGED <<sem, requests>>
    /\ UNCHANGED <<site, endpoint_reply, flattenVars, concurrency, pc, run_error, leaves, results>>
    /\ UNCHANGED <<captureVars, fileVars>>

\* A worker that takes the permit with sem.acquire() and gives it back after
\* the fetch without a try/finally: a task whose fetch ends with an error
\* record or an exception keeps its permit.
Complete_keeps_permit_on_error ==
    /\ pc = "crawl"
    /\ \E i \in DOMAIN task :
          /\ task[i].st = "fetching"
          /\ \E reply \in Replies :
                LET r == fetch_subjects_for_leaf(leaves[i], reply)
                IN  /\ task' = [task EXCEPT ![i] =
                                   IF r.ok THEN [st |-> "done", result |-> r.val]
                                   ELSE [st |-> "raised", result |-> Str(r.msg)]]
                    /\ sem' = IF r.ok /\ r.val.error = None THEN sem + 1 ELSE sem
          /\ completed' = Append(completed, i)
    /\ UNCHANGED <<site, endpoint_reply, flattenVars, concurrency, pc, run_error, leaves, results, requests>>
    /\ UNCHANGED <<captureVars, fileVars>>

\* The endpoint answers a worker's GET: fetch_subjects_for_leaf runs to its
\* end, the "async with" gives the permit back and the task is finished, with
\* the record or with the exception that got out of fetch_subjects_for_leaf.
\* A worker that calls sem.release() itself before it leaves "async with
\* sem": the permit is given back twice.
CompleteWith_releases_twice(i, reply) ==
    /\ pc = "crawl"
    /\ i \in DOMAIN task
    /\ task[i].st = "fetching"
    /\ LET r == fetch_subjects_for_leaf(leaves[i], reply)
       IN  task' = [task EXCEPT ![i] =
                       IF r.ok THEN [st |-> "done", result |-> r.val]
                       ELSE [st |-> "raised", result |-> Str(r.msg)]]
    /\ completed' = Append(completed, i)
    /\ sem' = sem + 2
    /\ UNCHANGED <<site, endpoint_reply, flattenVars, concurrency, pc, run_error, leaves, results, requests>>
    /\ UNCHANGED <<captureVars, fileVars>>

CompleteWith(i, reply) ==
    /\ pc = "crawl"
    /\ i \in DOMAIN task
    /\ task[i].st = "fetching"
    /\ LET r == fetch_subjects_for_leaf(leaves[i], reply)
       IN  task' = [task EXCEPT ![i] =
                       IF r.ok THEN [st |-> "done", result |-> r.val]
                       ELSE [st |-> "raised", result |-> Str(r.msg)]]
    /\ completed' = Append(completed, i)
    /\ sem' = sem + 1
    /\ UNCHANGED <<site, endpoint_reply, flattenVars, concurrency, pc, run_error, leaves, results, requests>>
    /\ UNCHANGED <<captureVars, fileVars>>

\* The endpoint answers some worker's GET with some answer.
Complete == \E i \in DOMAIN task : \E reply \in Replies : CompleteWith(i, reply)

\* The endpoint gives the answer that is followed.
CompleteAnswer == \E i \in DOMAIN task : CompleteWith(i, endpoint_reply)

\* The loop of collect_subjects keeping only the records without an error.
Gather_drops_failed ==
    /\ pc = "crawl"
    /\ completed # <<>>
    /\ LET i == Head(completed)
       IN  /\ completed' = Tail(completed)
           /\ IF task[i].st = "done"
              THEN /\ results' = IF task[i].result.error = None
                                 THEN Append(results, task[i].result) ELSE results
                   /\ task' = [task EXCEPT ![i].st = "gathered"]
                   /\ UNCHANGED <<pc, run_error>>
              ELSE /\ pc' = "failed"
                   /\ run_error' = task[i].result
                   /\ UNCHANGED <<results, task>>
    /\ UNCHANGED <<site, endpoint_reply, flattenVars, concurrency, leaves, sem, requests>>
    /\ UNCHANGED <<captureVars, fileVars>>

\* One turn of "for coro in as_completed(tasks): results.append(await coro)":
\* the task that finished first among those not yet handed over.  Awaiting a
\* task that ended with an exception raises it in collect_subjects, which
\* nothing catches.
Gather ==
    /\ pc = "crawl"
    /\ completed # <<>>
    /\ LET i == Head(completed)
       IN  /\ completed' = Tail(completed)
           /\ IF task[i].st = "done"
              THEN /\ results' = Append(results, task[i].result)
                   /\ task' = [task EXCEPT ![i].st = "gathered"]
                   /\ UNCHANGED <<pc, run_error>>
              ELSE /\ pc' = "failed"
                   /\ run_error' = task[i].result
                   /\ UNCHANGED <<results, task>>
    /\ UNCHANGED <<site, endpoint_reply, flattenVars, concurrency, leaves, sem, requests>>
    /\ UNCHANGED <<captureVars, fileVars>>

\* as_completed has handed over every task: the browser is closed and
\* leaf_subjects.json is written.
CollectFinish ==
    /\ pc = "crawl"
    /\ \A i \in DOMAIN task : task[i].st = "gathered"
    /\ subjects_file' = File(results)
    /\ pc' = "stats"
    /\ UNCHANGED <<site, endpoint_reply, flattenVars, concurrency, run_error, menu_file, stats, xlsx_file>>
    /\ UNCHANGED <<captureVars, crawlVars>>

\* ------------------------------------------------------- the rest of run_all
LeavesStats ==
    /\ pc = "stats"
    /\ stats' = leaves_stats(subjects_file.data)
    /\ pc' = "excel"
    /\ UNCHANGED <<site, endpoint_reply, flattenVars, concurrency, run_error, menu_file, subjects_file, xlsx_file>>
    /\ UNCHANGED <<captureVars, crawlVars>>

MakeExcel ==
    /\ pc = "excel"
    /\ xlsx_file' = File(make_excel(menu_file.data, subjects_file.data))
    /\ pc' = "done"
    /\ UNCHANGED <<site, endpoint_reply, flattenVars, concurrency, run_error, menu_file, subjects_file, stats>>
    /\ UNCHANGED <<captureVars, crawlVars>>

Next ==
    \/ Arrive
    \/ HandlerDone
    \/ NavigationDone
    \/ NavigationFails
    \/ WaitDone
    \/ WaitTimeout
    \/ CollectStart
    \/ Acquire
    \/ Complete
    \/ Gather
    \/ CollectFinish
    \/ LeavesStats
    \/ MakeExcel

Spec == Init /\ [][Next]_vars

\* ------------------------------------------------- collect_subjects on its own
\* run_all when fetch_menu has returned, for a captured menu.
InitCrawl ==
    /\ site \in Forests
    /\ concurrency \in 1..MaxConcurrency
    /\ pc = "collect"
    /\ run_error = None
    /\ fut = Done(site)
    /\ handlers = {}
    /\ nResp = MaxResponses
    /\ invalid_state = FALSE
    /\ menu_file = File(site)
    /\ leaves = <<>>
    /\ task = <<>>
    /\ sem = 0
    /\ completed = <<>>
    /\ results = <<>>
    /\ requests = {}
    /\ subjects_file = NoFile
    /\ stats = NoStats
    /\ xlsx_file = NoFile
    /\ stack = <<>>
    /\ out = <<>>
    /\ paths_by_root = <<>>
    /\ endpoint_reply = NoReply

CrawlNext ==
    \/ CollectStart
    \/ Acquire
    \/ Complete
    \/ Gather
    \/ CollectFinish

\* The event loop runs every callback that is ready: a task that can take a
\* permit takes it, a finished task is handed over by as_completed, and
\* collect_subjects goes on when it can.  That the endpoint answers every GET
\* (or the GET's own 8 s timeout ends it) is the fairness of Complete.
SpecCrawl ==
    /\ InitCrawl
    /\ [][CrawlNext]_vars
    /\ WF_vars(CollectStart)
    /\ WF_vars(Acquire)
    /\ WF_vars(Complete)
    /\ WF_vars(Gather)
    /\ WF_vars(CollectFinish)

\* ------------------------------------------- the tree traversals on their own
\* iter_leaves that emits every node it pops.
IterStep_emits_all ==
    /\ pc = "iter_leaves"
    /\ stack # <<>>
    /\ LET node   == stack[Len(stack)]
           rest   == SubSeq(stack, 1, Len(stack) - 1)
           childs == Childs(node)
       IN  /\ stack' = rest \o childs
           /\ out' = Append(out, node)
    /\ UNCHANGED <<site, endpoint_reply, concurrency, pc, run_error, paths_by_root>>
    /\ UNCHANGED <<captureVars, crawlVars, fileVars>>

\* One turn of iter_leaves' "while stack": the last node is popped; its
\* children are pushed, or, when it has none, it is appended to out.
IterStep ==
    /\ pc = "iter_leaves"
    /\ stack # <<>>
    /\ LET node   == stack[Len(stack)]
           rest   == SubSeq(stack, 1, Len(stack) - 1)
           childs == Childs(node)
       IN  IF childs # <<>>
           THEN stack' = rest \o childs /\ UNCHANGED out
           ELSE stack' = rest /\ out' = Append(out, node)
    /\ UNCHANGED <<site, endpoint_reply, concurrency, pc, run_error, paths_by_root>>
    /\ UNCHANGED <<captureVars, crawlVars, fileVars>>

\* iter_leaves has left its loop and returned out; build_paths_by_root is
\* called on the same forest.
BuildPaths ==
    /\ pc = "iter_leaves"
    /\ stack = <<>>
    /\ paths_by_root' = build_paths_by_root(site)
    /\ pc' = "build_paths_done"
    /\ UNCHANGED <<site, endpoint_reply, concurrency, run_error, stack, out>>
    /\ UNCHANGED <<captureVars, crawlVars, fileVars>>

\* iter_leaves(tree) is entered for a forest: stack = list(tree), out = [].
InitFlatten ==
    /\ site \in ExportForests
    /\ concurrency = 1
    /\ pc = "iter_leaves"
    /\ run_error = None
    /\ fut = Done(site)
    /\ handlers = {}
    /\ nResp = MaxResponses
    /\ invalid_state = FALSE
    /\ menu_file = File(site)
    /\ leaves = <<>>
    /\ task = <<>>
    /\ sem = 0
    /\ completed = <<>>
    /\ results = <<>>
    /\ requests = {}
    /\ subjects_file = NoFile
    /\ stats = NoStats
    /\ xlsx_file = NoFile
    /\ stack = site
    /\ out = <<>>
    /\ paths_by_root = <<>>
    /\ endpoint_reply = NoReply

FlattenNext == IterStep \/ BuildPaths

\* The loop's turns follow one another without an await.
SpecFlatten == InitFlatten /\ [][FlattenNext]_vars /\ WF_vars(FlattenNext)

\* ------------------------------------------------------ make_excel on its own
\* The replies that tell the records make_excel reads apart: a failed GET
\* with an empty and with a non-empty message, a facet of two subjects, no
\* facet.
ExportReplies ==
    {r \in Replies :
        \/ r.kind = "error"
        \/ /\ r.kind = "resp" /\ r.isJson /\ ~r.bom
           /\ r.doc \in {[data |-> [filters |-> <<OtherFilter>>]],
                          [data |-> [filters |-> <<XSubject(<<[id |-> 91, name |-> "Foo", count |-> 5],
                                                             [id |-> 92, name |-> "Bar", count |-> 0]>>)>>]]}}

\* Orders of completion of k tasks: the order of the leaves, rotated, so that
\* every task is the first to finish in one of them.
Rotations(k) == {[j \in 1..k |-> ((j + r - 1) % k) + 1] : r \in 0..(k - 1)}

\* The lists collect_subjects can write for the menu: one record per eligible
\* leaf, in an order of completion.
RecordLists(menu) ==
    LET ls == select_leaves(menu)
        k  == Len(ls)
    IN  { [j \in 1..k |-> fetch_subjects_for_leaf(ls[perm[j]], rep[perm[j]]).val] :
            perm \in Rotations(k), rep \in [1..k -> ExportReplies] }

\* run_all just before make_excel, for a menu and a list of records.
InitExport ==
    /\ site \in ExportForests
    /\ concurrency = 1
    /\ pc = "excel"
    /\ run_error = None
    /\ fut = Done(site)
    /\ handlers = {}
    /\ nResp = MaxResponses
    /\ invalid_state = FALSE
    /\ menu_file = File(site)
    /\ leaves = select_leaves(site)
    /\ results \in RecordLists(site)
    /\ task = [i \in 1..Len(leaves) |-> [st |-> "gathered", result |-> None]]
    /\ sem = concurrency
    /\ completed = <<>>
    /\ requests = {}
    /\ subjects_file = File(results)
    /\ stats = leaves_stats(results)
    /\ xlsx_file = NoFile
    /\ stack = <<>>
    /\ out = <<>>
    /\ paths_by_root = <<>>
    /\ endpoint_reply = NoReply

SpecExport == InitExport /\ [][MakeExcel]_vars

\* ------------------------------------------------- build_filters_url on its own
\* The characters of a query text: a letter, a space, and characters that
\* percent-encoding rewrites.
QueryChars == {"a", " ", "+", "%", "2"}

\* The texts of 1..n characters.
RECURSIVE TextsUpTo(_)
TextsUpTo(n) ==
    IF n = 0 THEN {<<>>}
    ELSE LET shorter == TextsUpTo(n - 1)
         IN  shorter \cup {Append(q, c) : q \in shorter, c \in QueryChars}
QueryTexts == TextsUpTo(MaxQueryLen) \ {<<>>}

\* collect_subjects with its task created, for a menu of one eligible leaf
\* whose query text is any of the texts.
InitUrl ==
    /\ \E q \in QueryTexts : site = <<[LeafNode(1, 1) EXCEPT !.searchQuery = q]>>
    /\ concurrency = 1
    /\ pc = "crawl"
    /\ run_error = None
    /\ fut = Done(site)
    /\ handlers = {}
    /\ nResp = MaxResponses
    /\ invalid_state = FALSE
    /\ menu_file = File(site)
    /\ leaves = select_leaves(site)
    /\ task = [i \in 1..Len(leaves) |-> Waiting]
    /\ sem = concurrency
    /\ completed = <<>>
    /\ results = <<>>
    /\ requests = {}
    /\ subjects_file = NoFile
    /\ stats = NoStats
    /\ xlsx_file = NoFile
    /\ stack = <<>>
    /\ out = <<>>
    /\ paths_by_root = <<>>
    /\ endpoint_reply = NoReply

\* The leaf's worker issues its GET.
SpecUrl == InitUrl /\ [][Acquire]_vars

\* ------------------------------------------ fetch_subjects_for_leaf on its own
\* collect_subjects with its task created, for a menu of one eligible leaf and
\* an answer of the endpoint to that leaf's GET.
InitFetch ==
    /\ site = <<LeafNode(1, 1)>>
    /\ endpoint_reply \in Replies
    /\ concurrency = 1
    /\ pc = "crawl"
    /\ run_error = None
    /\ fut = Done(site)
    /\ handlers = {}
    /\ nResp = MaxResponses
    /\ invalid_state = FALSE
    /\ menu_file = File(site)
    /\ leaves = select_leaves(site)
    /\ task = [i \in 1..Len(leaves) |-> Waiting]
    /\ sem = concurrency
    /\ completed = <<>>
    /\ results = <<>>
    /\ requests = {}
    /\ subjects_file = NoFile
    /\ stats = NoStats
    /\ xlsx_file = NoFile
    /\ stack = <<>>
    /\ out = <<>>
    /\ paths_by_root = <<>>

FetchNext == Acquire \/ CompleteAnswer \/ Gather

SpecFetch == InitFetch /\ [][FetchNext]_vars

\* ===================================================================== claims
\* What can end run_all before collect_subjects starts: fetch_menu's failures.
CaptureErrors == {Str("TimeoutError"), Str("NavigationError")}

\* The records a leaf's fetch can produce, whatever the other leaves do.
PossibleRecords(leaf) ==
    {fetch_subjects_for_leaf(leaf, reply).val :
        reply \in {r \in Replies : fetch_subjects_for_leaf(leaf, r).ok}}

\* The records that exist: of the finished tasks, of the result list, of
\* leaf_subjects.json.
AllRecords ==
    {task[i].result : i \in {j \in DOMAIN task : task[j].st \in {"done", "gathered"}}}
      \cup Range(results) \cup Range(subjects_file.data)

\* One step of the crawl is possible.
CrawlStep == Acquire \/ Complete \/ Gather \/ CollectFinish

\* C1: collect_subjects never fails and never gets stuck, whatever the cap,
\* the interleaving and the outcomes of the fetches, and the list it writes
\* holds exactly one record per leaf: as many records as leaves, and each
\* leaf's id in exactly one record.
C1_OneRecordPerLeaf ==
    /\ pc = "failed" => run_error \in CaptureErrors
    /\ pc = "crawl" => ENABLED CrawlStep
    /\ Len(results) <= Len(leaves)
    /\ subjects_file.exists =>
          /\ subjects_file.data = results
          /\ Len(results) = Len(leaves)
          /\ \A i \in DOMAIN leaves :
                Cardinality({k \in DOMAIN results :
                                results[k].leaf_id = leaves[i].id}) = 1

\* C1's case: two leaves under a cap of one, one fetch failed and the other
\* succeeded, and the list is written.
C1_Witness ==
    /\ subjects_file.exists
    /\ Len(leaves) = 2
    /\ concurrency = 1
    /\ \E k \in DOMAIN results : results[k].error # None
    /\ \E k \in DOMAIN results : results[k].error = None

\* The number of tasks inside fetch_subjects_for_leaf.
InFlight == Cardinality({i \in DOMAIN task : task[i].st = "fetching"})

\* C2: at no instant are more than `concurrency` leaf tasks inside
\* fetch_subjects_for_leaf.
C2_AtMostCInFlight == InFlight <= concurrency

\* C2's case: the cap is reached while another task waits for a permit.
C2_Witness ==
    /\ InFlight = concurrency
    /\ \E i \in DOMAIN task : task[i].st = "waiting"

\* C3, in every state: no task ends with an exception, run_all fails only in
\* fetch_menu, and every record is one its own leaf's fetch can produce.
C3_Contained ==
    /\ \A i \in DOMAIN task : task[i].st # "raised"
    /\ pc = "failed" => run_error \in CaptureErrors
    /\ \A rec \in AllRecords :
          \E i \in DOMAIN leaves :
             rec.leaf_id = leaves[i].id /\ rec \in PossibleRecords(leaves[i])

\* C3, in every step: the step in which a leaf's fetch fails changes that
\* leaf's task alone (no other task is cancelled or changed, no record is
\* lost) and lets the crawl go on; and no step changes a record once made.
C3_Step ==
    /\ \A i \in DOMAIN task :
          (task[i].st = "fetching" /\ task'[i].st # "fetching"
             /\ task'[i].result.error # None)
          => /\ \A j \in DOMAIN task \ {i} : task'[j] = task[j]
             /\ results' = results
             /\ pc' = "crawl"
             /\ run_error' = None
    /\ \A i \in DOMAIN task :
          task[i].st \in {"done", "gathered"} => task'[i].result = task[i].result
    /\ \A k \in DOMAIN results : k \in DOMAIN results' /\ results'[k] = results[k]

\* C3: a failure of one leaf's fetch never gets out of
\* fetch_subjects_for_leaf and never makes collect_subjects fail, and it
\* leaves every other leaf's record as it is.
C3_FailureContained == []C3_Contained /\ [][C3_Step]_vars

\* C3's case: the crawl is over, one leaf's fetch failed and another leaf has
\* its subjects.
C3_Witness ==
    /\ pc = "done"
    /\ \E k \in DOMAIN results : results[k].error = Str("Timeout 8000ms exceeded")
    /\ \E k \in DOMAIN results :
          results[k].error = None /\ Len(results[k].subjects) = 2

\* C4: every record whose error is not null has an empty subjects list.
C4_ErrorMeansNoSubjects ==
    \A rec \in AllRecords : rec.error # None => rec.subjects = <<>>

\* C4's case: extract_subjects failed on an item without a name (in some
\* replies after an item it had mapped), and the record is in the list.
C4_Witness ==
    \E k \in DOMAIN results :
       results[k].error = Str("'name'") /\ results[k].subjects = <<>>

\* C5: the counts leaves_stats reports are the number of leaves and the
\* number of records whose error is null, so that a leaf whose fetch threw is
\* never counted as succeeded, whatever the exception's message.
C5_StatsCountNullErrors ==
    stats # NoStats =>
       /\ stats.total = Len(leaves)
       /\ stats.ok = Cardinality({k \in DOMAIN results : results[k].error = None})

\* The candidates whose on_response call ends in this step.
Ending == handlers \ handlers'

\* C6, in every step: a resolved future keeps its value; no set_result raises
\* InvalidStateError; the future is resolved only with the parsed body of an
\* accepted candidate whose on_response call ends in that step; and the
\* first accepted candidate whose call ends while the future is pending
\* resolves it.
C6_Step ==
    /\ fut.state = "done" => fut' = fut
    /\ ~invalid_state'
    /\ (fut.state = "pending" /\ fut'.state = "done") =>
          \E h \in Ending :
             /\ h.resp.body.isJson /\ looks_like_menu_json(h.resp.body)
             /\ fut'.value = h.resp.body.data
    /\ (fut.state = "pending"
          /\ \E h \in Ending : h.resp.body.isJson /\ looks_like_menu_json(h.resp.body))
       => fut'.state = "done"

\* C6: fetch_menu's future is resolved at most once, with the parsed body of
\* the first candidate that passes acceptance; a candidate accepted later
\* leaves the value as it is and raises no error.
C6_ResolvedOnce == [][C6_Step]_vars

\* C6's case: two accepted candidates with different bodies were suspended in
\* resp.json() together; the future holds the body of the one that ended
\* first and the other is about to end.
C6_Witness ==
    /\ fut = Done(AltMenu)
    /\ site # AltMenu
    /\ \E h \in handlers :
          /\ looks_like_menu_json(h.resp.body)
          /\ h.resp.body.data = site

\* C7, in every state: after the capture timed out run_all has failed, the
\* future is cancelled and stays unresolved, no file is written, no leaf task
\* exists and no fetch was issued; and menu.json, when written, holds the
\* captured document.
C7_Inv ==
    /\ run_error = Str("TimeoutError") =>
          /\ pc = "failed"
          /\ fut = Cancelled
          /\ ~menu_file.exists /\ ~subjects_file.exists /\ ~xlsx_file.exists
          /\ stats = NoStats
          /\ leaves = <<>> /\ task = <<>> /\ requests = {}
    /\ menu_file.exists => fut.state = "done" /\ menu_file.data = fut.value

\* C7, in every step: the wait is left with the future unresolved only by
\* failing with the timeout error.
C7_Step ==
    (pc = "wait" /\ pc' # "wait" /\ fut.state = "pending")
    => (pc' = "failed" /\ run_error' = Str("TimeoutError"))

\* C7: when no response passes acceptance before the timeout, fetch_menu
\* fails with a timeout error and writes no menu document, run_all stops
\* there (no leaf fetch, no leaf_subjects.json, no export), and a candidate
\* that arrives later does not resolve the capture.
C7_TimeoutStopsRun == []C7_Inv /\ [][C7_Step]_vars

\* C7's case: the capture has timed out and a well-formed candidate, which
\* came too late, is suspended in resp.json().
C7_Witness ==
    /\ run_error = Str("TimeoutError")
    /\ \E h \in handlers : h.resp.body.isJson /\ looks_like_menu_json(h.resp.body)

\* ------------------------------------------------------------- export claims
\* The nodes of a tree with their depths, <<id, name, depth>>.
RECURSIVE DepthTriples(_, _)
DepthTriples(node, d) ==
    {<<node.id, Get(node, "name", ""), d>>}
      \cup UNION {DepthTriples(Childs(node)[k], d + 1) : k \in DOMAIN Childs(node)}

\* The number of childless nodes in a tree.
RECURSIVE NumLeaves(_)
NumLeaves(node) ==
    IF Childs(node) = <<>> THEN 1
    ELSE LET n[k \in 0..Len(Childs(node))] ==
                 IF k = 0 THEN 0 ELSE n[k - 1] + NumLeaves(Childs(node)[k])
         IN  n[Len(Childs(node))]

\* The nodes of a tree.
RECURSIVE Nodes(_)
Nodes(node) ==
    {node} \cup UNION {Nodes(Childs(node)[k]) : k \in DOMAIN Childs(node)}

\* The depth of a node of the tree (ids are unique).
DepthIn(root, node) ==
    (CHOOSE t \in DepthTriples(root, 0) : t[1] = node.id)[3]

\* The rows written for a root: its sheet's, or none when it has no sheet.
RowsFor(root) ==
    LET named == {i \in DOMAIN xlsx_file.data :
                     xlsx_file.data[i].sheet = Get(root, "name", "")}
    IN  IF named = {} THEN <<>> ELSE xlsx_file.data[CHOOSE i \in named : TRUE].rows

\* The Subject rows of a leaf: one per subject of its record, when the record
\* has no error.
SubjectRows(leaf_id) ==
    LET recs == {k \in DOMAIN subjects_file.data :
                    /\ subjects_file.data[k].leaf_id = leaf_id
                    /\ subjects_file.data[k].error = None}
        subjs == IF recs = {} THEN <<>>
                 ELSE subjects_file.data[CHOOSE k \in recs : TRUE].subjects
    IN  [k \in 1..Len(subjs) |-> <<subjs[k].id, subjs[k].name, 99>>]

\* C8: no row is emitted for a node at depth 0: every row of a root is a
\* Subject row with level 99, or the row of a node of that root's tree at a
\* depth >= 1 with that depth as its level.
C8_NoRowAtDepthZero ==
    xlsx_file.exists =>
       \A r \in DOMAIN menu_file.data :
          LET root == menu_file.data[r]
              rows == RowsFor(root)
          IN  \A i \in DOMAIN rows :
                 \/ /\ rows[i][3] = 99
                    /\ \E rec \in Range(subjects_file.data) :
                          \E s \in Range(rec.subjects) :
                             rows[i] = <<s.id, s.name, 99>>
                 \/ /\ rows[i][3] >= 1
                    /\ rows[i] \in DepthTriples(root, 0)

\* C8's case: a root that is itself a leaf with fetched subjects: its sheet
\* holds the Subject rows and no row of the root.
C8_Witness ==
    /\ xlsx_file.exists
    /\ \E r \in DOMAIN menu_file.data :
          /\ Childs(menu_file.data[r]) = <<>>
          /\ Len(RowsFor(menu_file.data[r])) = 2
    /\ \E r \in DOMAIN menu_file.data : Len(Childs(menu_file.data[r])) = 2

\* The paths of the menu, of every root.
RECURSIVE ConcatPaths(_)
ConcatPaths(entries) ==
    IF entries = <<>> THEN <<>> ELSE entries[1].paths \o ConcatPaths(Tail(entries))
AllPaths == ConcatPaths(build_paths_by_root(menu_file.data))

\* C9: once the export is built, a record with a non-null error is left out
\* of the leaf_id -> subjects map, and the rows of its leaf's path are the
\* ancestors below the root and the leaf (unless it is the root), as for a
\* successful record, with no level-99 row.
C9_ErrorRecordsLeftOut ==
    xlsx_file.exists =>
       \A k \in DOMAIN subjects_file.data :
          LET rec == subjects_file.data[k]
              map == subjects_map(subjects_file.data)
          IN  rec.error # None =>
                 /\ rec.leaf_id \notin DOMAIN map
                 /\ \A p \in Range(AllPaths) :
                       p[Len(p)][1] = rec.leaf_id =>
                          RowsOfPath(p, map)
                            = SubSeq(p, 2, Len(p) - 1)
                                \o (IF Len(p) >= 2 THEN <<p[Len(p)]>> ELSE <<>>)

\* The rows of one path as the claim lists them: the ancestors below the
\* root, the leaf unless it is the root, the leaf's Subject rows.
ExpectedRowsOfPath(path) ==
    [i \in 1..(Len(path) - 2) |-> path[i + 1]]
      \o (IF Len(path) >= 2 THEN <<path[Len(path)]>> ELSE <<>>)
      \o SubjectRows(path[Len(path)][1])

RECURSIVE ExpectedRows(_)
ExpectedRows(paths) ==
    IF paths = <<>> THEN <<>>
    ELSE ExpectedRowsOfPath(paths[1]) \o ExpectedRows(Tail(paths))

\* C10: the rows of a root are, path by path, the ancestors of depth > 0 from
\* the root down, then the leaf if its depth is > 0, then one level-99 row per
\* subject of the leaf in the list's order; an internal node at depth >= 1
\* with k leaf descendants is in exactly k rows.
C10_RowsArePathConcatenation ==
    xlsx_file.exists =>
       /\ \A e \in Range(build_paths_by_root(menu_file.data)) :
             \E r \in DOMAIN menu_file.data :
                /\ e.key = <<menu_file.data[r].id, menu_file.data[r].name>>
                /\ RowsFor(menu_file.data[r]) = ExpectedRows(e.paths)
       /\ \A r \in DOMAIN menu_file.data :
             \A n \in Nodes(menu_file.data[r]) :
                LET d == DepthIn(menu_file.data[r], n)
                    rows == RowsFor(menu_file.data[r])
                IN  (d >= 1 /\ Childs(n) # <<>>) =>
                       Cardinality({i \in DOMAIN rows : rows[i] = <<n.id, n.name, d>>})
                         = NumLeaves(n)

\* C10's case: an internal node at depth 1 with two leaves below it, one of
\* them with two subjects: the node's row is written twice.
C10_Witness ==
    /\ xlsx_file.exists
    /\ \E r \in DOMAIN menu_file.data :
          \E n \in Nodes(menu_file.data[r]) :
             /\ DepthIn(menu_file.data[r], n) = 1
             /\ Len(Childs(n)) = 2
             /\ Cardinality({i \in DOMAIN RowsFor(menu_file.data[r]) :
                   RowsFor(menu_file.data[r])[i] = <<n.id, n.name, 1>>}) = 2
             /\ \E i \in DOMAIN RowsFor(menu_file.data[r]) :
                   RowsFor(menu_file.data[r])[i][3] = 99

\* ---------------------------------------------------------------- url claims
\* The number of places at which p occurs in s.
Count(s, p) ==
    Cardinality({i \in 0..(Len(s) - Len(p)) : SubSeq(s, i + 1, i + Len(p)) = p})

\* The query part of the urls requested for a leaf: what follows "query=".
EncodedQueries(leaf) ==
    {Tail(r.url) : r \in {x \in requests :
                             /\ x.referer = get_leaf_info(leaf).val.leaf_full_url
                             /\ x.url[1] = FILTERS_URL_HEAD[1]}}

\* The leaves whose worker has issued its GET.
Requested == {i \in DOMAIN task : task[i].st # "waiting"}

\* C11 as stated: in the url requested for a leaf every space of the query
\* text is written as "+" and none as "%20".
C11_SpacesAsPlus ==
    \A i \in Requested :
       /\ EncodedQueries(leaves[i]) # {}
       /\ \A e \in EncodedQueries(leaves[i]) :
             /\ Count(e, <<"+">>) = Count(leaves[i].searchQuery, <<" ">>)
             /\ Count(e, <<"%", "2", "0">>) = 0

\* C11, amended: in the url requested for a leaf every space of the query
\* text is written as "%20" and none as "+": the encoded text holds no space
\* and no "+", and as many "%20" as the query text holds spaces.
C11_SpacesAsPercent20 ==
    \A i \in Requested :
       /\ EncodedQueries(leaves[i]) # {}
       /\ \A e \in EncodedQueries(leaves[i]) :
             /\ Count(e, <<"%", "2", "0">>) = Count(leaves[i].searchQuery, <<" ">>)
             /\ Count(e, <<"+">>) = 0
             /\ Count(e, <<" ">>) = 0

\* C11's case: a GET was issued for a query text that holds a space, a "+"
\* and a "%".
C11_Witness ==
    \E i \in Requested :
       /\ Count(leaves[i].searchQuery, <<" ">>) = 1
       /\ Count(leaves[i].searchQuery, <<"+">>) = 1
       /\ Count(leaves[i].searchQuery, <<"%">>) = 1

\* ------------------------------------------------------------ selection claims
\* The nodes of the captured menu document.
MenuNodes == UNION {Nodes(menu_file.data[r]) : r \in DOMAIN menu_file.data}

\* The nodes the claim names: no children, a url that begins with /catalog,
\* a search query that is present and not empty.
EligibleNodes ==
    {n \in MenuNodes :
        /\ Childs(n) = <<>>
        /\ "url" \in DOMAIN n /\ Len(n.url) >= 8 /\ SubSeq(n.url, 1, 8) = CATALOG
        /\ "searchQuery" \in DOMAIN n /\ Len(n.searchQuery) > 0}

\* C12: once collect_subjects has selected its leaves, they are exactly the
\* childless nodes of the menu under /catalog with a non-empty search query,
\* each once; and every fetch ever issued is the fetch of one of them: none
\* for an internal node, for a childless node outside /catalog or for one
\* without a search query.
C12_OnlyEligibleLeavesFetched ==
    pc \in {"crawl", "stats", "excel", "done"} =>
       /\ Range(leaves) = EligibleNodes
       /\ Len(leaves) = Cardinality(EligibleNodes)
       /\ \A r \in requests : \E n \in EligibleNodes : r.referer = SITE \o n.url
       /\ \A n \in MenuNodes \ EligibleNodes :
             \A r \in requests : r.referer # SITE \o Get(n, "url", <<>>)

\* C12's case: the run is over for a menu of an internal node (which has a
\* /catalog url and a search query) above an eligible leaf, and a fetch was
\* issued.
C12_Witness ==
    /\ pc = "done"
    /\ \E n \in MenuNodes : Childs(n) # <<>>
    /\ requests # {}

\* ------------------------------------------------------------- liveness claims
\* C13, in every step: the step in which a fetch ends by its own timeout makes
\* that leaf's record, with the timeout's message as its error, and changes
\* no other task; collect_subjects goes on.
C13_Step ==
    \A i \in DOMAIN task :
       (task[i].st = "fetching" /\ task'[i].st # "fetching"
          /\ task'[i].result.error = Str("Timeout 8000ms exceeded"))
       => /\ task'[i].st = "done"
          /\ task'[i].result.subjects = <<>>
          /\ \A j \in DOMAIN task \ {i} : task'[j] = task[j]
          /\ pc' = "crawl" /\ run_error' = None

\* C13: when every admitted fetch eventually finishes, every task that waits
\* on the semaphore is eventually admitted, and collect_subjects eventually
\* finishes with one record per leaf; a fetch's own timeout ends that leaf
\* with an in-band error and cancels no other task.
C13_CrawlFinishes ==
    /\ \A i \in 1..MaxNodes :
          (i \in DOMAIN task /\ task[i].st = "waiting")
             ~> (i \in DOMAIN task /\ task[i].st # "waiting")
    /\ (pc = "collect") ~> (pc = "stats" /\ Len(results) = Len(leaves)
                                          /\ subjects_file = File(results))
    /\ [][C13_Step]_vars

\* C13's case: two leaves under a cap of one; the first fetch ended by its
\* timeout, the second leaf, which had to wait, has its subjects, and
\* collect_subjects has finished.
C13_Witness ==
    /\ pc = "stats"
    /\ concurrency = 1
    /\ Len(results) = 2
    /\ results[1].error = Str("Timeout 8000ms exceeded")
    /\ results[2].error = None /\ Len(results[2].subjects) > 0

\* ------------------------------------------------------------ traversal claims
\* The nodes of the forest iter_leaves is given.
ForestNodes == UNION {Nodes(site[r]) : r \in DOMAIN site}

\* The nodes on the stack and below them: what the loop still has to pop.
StackSize ==
    LET n[k \in 0..Len(stack)] ==
           IF k = 0 THEN 0 ELSE n[k - 1] + Cardinality(Nodes(stack[k]))
    IN  n[Len(stack)]

\* C14, in every state: out holds only childless nodes of the forest, each at
\* most once, and when the loop has ended it holds every childless node of
\* the forest exactly once (and is what select_leaves filters).
C14_Inv ==
    pc \in {"iter_leaves", "build_paths_done"} =>
       /\ \A k \in DOMAIN out : out[k] \in ForestNodes /\ Childs(out[k]) = <<>>
       /\ \A j, k \in DOMAIN out : j # k => out[j] # out[k]
       /\ stack = <<>> =>
             /\ \A n \in ForestNodes :
                   Cardinality({k \in DOMAIN out : out[k] = n})
                      = (IF Childs(n) = <<>> THEN 1 ELSE 0)
             /\ out = iter_leaves(site)

\* C14, in every turn of the loop: the number of nodes still to pop goes down.
C14_Step == stack' # stack => StackSize' < StackSize

\* C14: the stack loop of iter_leaves terminates on every forest and returns
\* each node without children exactly once and no node that has children.
C14_IterLeavesTerminates ==
    /\ []C14_Inv
    /\ [][C14_Step]_vars
    /\ <>(pc = "iter_leaves" /\ stack = <<>>)

\* C14's case: the loop has ended on a forest of two trees, one of them of
\* depth 2, and out holds two nodes.
C14_Witness ==
    /\ pc = "iter_leaves" /\ stack = <<>>
    /\ Len(site) = 2
    /\ \E r \in DOMAIN site : \E c \in Range(Childs(site[r])) : Childs(c) # <<>>
    /\ Len(out) = 2

\* The paths build_paths_by_root returned, of every root.
BuiltPaths == ConcatPaths(paths_by_root)

\* The node of the forest with the id of a path's triple (ids are unique).
NodeOf(triple) == CHOOSE n \in ForestNodes : n.id = triple[1]

\* C15: build_paths_by_root yields one path per childless node of the forest:
\* as many paths as iter_leaves returned nodes, ending in the same nodes; each
\* root's entry holds paths that start at that root with depth 0; each path is
\* the chain of parent and child down to its leaf, and every triple's name is
\* its node's and its depth its position in the path.
C15_OnePathPerLeaf ==
    pc = "build_paths_done" =>
       /\ Len(BuiltPaths) = Len(out)
       /\ \A k \in DOMAIN out :
             Cardinality({i \in DOMAIN BuiltPaths :
                 BuiltPaths[i][Len(BuiltPaths[i])][1] = out[k].id}) = 1
       /\ \A e \in Range(paths_by_root) :
             /\ \E r \in DOMAIN site : e.key = <<site[r].id, site[r].name>>
             /\ \A p \in Range(e.paths) : p[1] = <<e.key[1], e.key[2], 0>>
       /\ \A p \in Range(BuiltPaths) :
             /\ Len(p) >= 1
             /\ \A i \in DOMAIN p :
                   /\ \E n \in ForestNodes : n.id = p[i][1]
                   /\ p[i][2] = NodeOf(p[i]).name
                   /\ p[i][3] = i - 1
                   /\ i > 1 => NodeOf(p[i]) \in Range(Childs(NodeOf(p[i - 1])))
             /\ NodeOf(p[1]) \in Range(site)
             /\ Childs(NodeOf(p[Len(p)])) = <<>>

\* C15's case: the paths are built for a forest of two trees, one of them of
\* depth 2: there is a path of three triples and a path of the root alone.
C15_Witness ==
    /\ pc = "build_paths_done"
    /\ Len(paths_by_root) = 2
    /\ \E p \in Range(BuiltPaths) : Len(p) = 3
    /\ \E p \in Range(BuiltPaths) : Len(p) = 1

\* ---------------------------------------------------------------- facet claims
\* The answer that is followed is a response whose body is a JSON document
\* with a data.filters list.
HasFilters ==
    /\ endpoint_reply.kind = "resp" /\ endpoint_reply.isJson
    /\ "data" \in DOMAIN endpoint_reply.doc
    /\ "filters" \in DOMAIN endpoint_reply.doc.data

\* The positions of the filters with key xsubject in that list.
XSubjectAt ==
    {k \in DOMAIN endpoint_reply.doc.data.filters :
        /\ "key" \in DOMAIN endpoint_reply.doc.data.filters[k]
        /\ endpoint_reply.doc.data.filters[k].key = "xsubject"}

\* The items of the xsubject filter (of the first, when there are several;
\* none when it has no "items").
XSubjectItems ==
    LET f == endpoint_reply.doc.data.filters[CHOOSE k \in XSubjectAt :
                                                \A j \in XSubjectAt : k <= j]
    IN  IF "items" \in DOMAIN f THEN f.items ELSE <<>>

Acceptable(resp) ==
    /\ resp.rtype = "xhr" \/ resp.rtype = "fetch"
    /\ Len(resp.url) > 0 /\ resp.url[Len(resp.url)] = ".json"
    /\ \E i \in DOMAIN resp.url : resp.url[i] = "main-menu"
    /\ \E i \in DOMAIN resp.url : resp.url[i] = "v3"
    /\ resp.body.isJson /\ resp.body.isList
    /\ \E i \in 1..5 :
          /\ i <= Len(resp.body.data)
          /\ DOMAIN resp.body.data[i] \cap {"scalar", "id", "name"} = {"id", "name"}

\* C17, in every step: the capture is resolved only by a response that meets
\* the acceptance conditions, with its parsed body; a response that meets
\* them and whose on_response call ends while the capture is pending resolves
\* it; a response that does not meet them leaves the capture as it is (a
\* pending capture stays pending, for a later valid response), whether
\* on_response drops it at once or after it has parsed its body.
C17_Step ==
    /\ (fut.state = "pending" /\ fut'.state = "done") =>
          \E h \in Ending : Acceptable(h.resp) /\ fut' = Done(h.resp.body.data)
    /\ \A h \in Ending :
          /\ (fut.state = "pending" /\ pc' = pc /\ Acceptable(h.resp))
                => fut' = Done(h.resp.body.data)
          /\ ~Acceptable(h.resp) => fut' = fut
    /\ nResp' = nResp + 1 =>
          /\ fut' = fut
          /\ \A h \in handlers' \ handlers :
                /\ h.resp.rtype \in {"xhr", "fetch"}
                /\ h.resp.url[Len(h.resp.url)] = ".json"
                /\ {"main-menu", "v3"} \subseteq Range(h.resp.url)

\* C17, in every state: the capture never holds the body whose only mapping
\* with an id and a name is its sixth element.
C17_Inv == fut.state = "done" => fut.value # PaddedMenu(5)

\* C17: a response is accepted as the tree document if and only if its
\* resource type is xhr or fetch, its url ends in .json and contains every
\* required substring, and its parsed body is a sequence of which one of the
\* first 5 elements is a mapping with an id and a name; a body whose only
\* such element is at position 6 is not accepted, and a rejected candidate
\* leaves the capture pending for a later valid one.
C17_AcceptedIff == []C17_Inv /\ [][C17_Step]_vars

\* C17's case: two responses came and both on_response calls have ended; the
\* capture holds the body whose only mapping with an id and a name is its
\* fifth element.
C17_Witness ==
    /\ fut = Done(PaddedMenu(4))
    /\ nResp = 2
    /\ handlers = {}
    /\ pc = "wait"

\* ------------------------------------------------------------ attachment claims
\* The last row before row i whose level is not 99, or 0 when there is none.
LeafRowBefore(rows, i) ==
    LET before == {j \in 1..(i - 1) : rows[j][3] # 99}
    IN  IF before = {} THEN 0 ELSE CHOOSE j \in before : \A k \in before : k <= j

\* Row i of the rows is the n-th Subject of the record of the leaf with this
\* id.
IsSubjectOf(rows, i, n, leaf_id) ==
    \E rec \in Range(subjects_file.data) :
       /\ rec.leaf_id = leaf_id
       /\ n \in DOMAIN rec.subjects
       /\ rows[i] = <<rec.subjects[n].id, rec.subjects[n].name, 99>>

\* Row i of a root's rows, of level 99, is attached to the preceding leaf:
\* going back over rows of level 99 one reaches the row of a childless node of
\* the root's tree, and row i is the Subject of that leaf's record at that
\* distance.
AttachedToPrecedingLeaf(root, rows, i) ==
    LET j == LeafRowBefore(rows, i)
    IN  /\ j > 0
        /\ \E n \in Nodes(root) :
              /\ Childs(n) = <<>>
              /\ rows[j] = <<n.id, n.name, DepthIn(root, n)>>
              /\ IsSubjectOf(rows, i, i - j, n.id)

\* C18 as stated: in the rows of every root, the root that is itself a leaf
\* included, every row of level 99 is attached to the preceding leaf.
C18_SubjectsFollowTheirLeaf ==
    xlsx_file.exists =>
       \A r \in DOMAIN menu_file.data :
          LET rows == RowsFor(menu_file.data[r])
          IN  \A i \in DOMAIN rows :
                 rows[i][3] = 99 => AttachedToPrecedingLeaf(menu_file.data[r], rows, i)

\* C18, amended: in the rows of a root that has children every row of level
\* 99 is attached to the preceding leaf; the rows of a root that is itself a
\* leaf are the Subjects of the root's record, in their order, with no row of
\* the leaf before them.
C18_SubjectsFollowTheirLeafBelowRoot ==
    xlsx_file.exists =>
       \A r \in DOMAIN menu_file.data :
          LET root == menu_file.data[r]
              rows == RowsFor(root)
          IN  \A i \in DOMAIN rows :
                 IF Childs(root) # <<>>
                 THEN rows[i][3] = 99 => AttachedToPrecedingLeaf(root, rows, i)
                 ELSE rows[i][3] = 99 /\ IsSubjectOf(rows, i, i, root.id)

\* C18's case: one root is itself a leaf with two Subjects, and under another
\* root two leaves have Subjects.
C18_Witness ==
    /\ xlsx_file.exists
    /\ \E r \in DOMAIN menu_file.data :
          /\ Childs(menu_file.data[r]) = <<>>
          /\ Len(RowsFor(menu_file.data[r])) = 2
    /\ \E r \in DOMAIN menu_file.data :
          Cardinality({i \in DOMAIN RowsFor(menu_file.data[r]) :
                          RowsFor(menu_file.data[r])[i][3] = 99}) = 4

\* -------------------------------------------------------------- permit claims
\* C19, in every state of collect_subjects and after it: the tasks that hold
\* a permit and the free permits are `concurrency` together, and when no task
\* waits or fetches any more every permit is free.
C19_Inv ==
    pc \in {"crawl", "stats", "excel", "done"} =>
       /\ InFlight + sem = concurrency
       /\ sem >= 0
       /\ (\A i \in DOMAIN task : task[i].st \notin {"waiting", "fetching"})
             => sem = concurrency

\* C19, in every step: a task whose fetch ends, with its subjects or with an
\* error, gives its permit back, and only a task that takes a permit makes
\* the free permits fewer.
C19_Step ==
    /\ \A i \in DOMAIN task :
          (task[i].st = "fetching" /\ task'[i].st # "fetching") => sem' = sem + 1
    /\ \A i \in DOMAIN task :
          (task[i].st = "waiting" /\ task'[i].st = "fetching") => sem' = sem - 1

\* C19: at every instant of collect_subjects the tasks holding a permit plus
\* the free permits are C; a task gives its permit back when its fetch ends
\* in success or in failure, so that all C permits are free once all tasks
\* have finished.
C19_PermitsConserved == []C19_Inv /\ [][C19_Step]_vars

\* C19's case: under a cap of two, two fetches were in flight together, both
\* have ended, one of them in failure, and both permits are free.
C19_Witness ==
    /\ pc = "crawl"
    /\ concurrency = 2 /\ sem = 2
    /\ Len(task) = 2
    /\ \A i \in DOMAIN task : task[i].st = "done"
    /\ completed = <<2, 1>>
    /\ task[1].result.error # None
    /\ task[2].result.error = None

\* ---------------------------------------------------------------- order claims
\* The records of the result list in the order of the leaves (the order of
\* the tasks), whatever the order in which the tasks finished.
InLeafOrder ==
    [i \in DOMAIN leaves |->
        CHOOSE rec \in Range(subjects_file.data) : rec.leaf_id = leaves[i].id]

\* C20: for a forest with unique node ids, the sheets and rows of the export
\* are those of the records taken in the order of the leaves: whatever the
\* order in which the tasks finished and whatever the cap, the order of the
\* records in the list does not change the rows.
C20_RowsIgnoreRecordOrder ==
    pc = "done" =>
       /\ Len(subjects_file.data) = Len(leaves)
       /\ xlsx_file.data = make_excel(menu_file.data, InLeafOrder)

\* C20's case: two leaves whose tasks finished in the other order than they
\* were started in, the first with two subjects and the second with one, and
\* the export is written.
C20_Witness ==
    /\ pc = "done"
    /\ Len(results) = 2
    /\ results[1].leaf_id = leaves[2].id /\ Len(results[1].subjects) = 1
    /\ results[2].leaf_id = leaves[1].id /\ Len(results[2].subjects) = 2
    /\ Len(xlsx_file.data) = 2
====
